---- MODULE Spec2Model ----
(***************************************************************************)
(* Model of llama/tokenizer.py: the text chunker and encode pipeline of    *)
(* Tokenizer, and the dialog framing / token-stream scanning of            *)
(* MessageFormat.                                                          *)
(*                                                                         *)
(* Text is a sequence of one-character strings, a token stream a sequence  *)
(* of integer ids.  Python's 0-based half-open slices s[a:b] are written   *)
(* Slice(s, a, b).                                                         *)
(***************************************************************************)
EXTENDS Integers, Sequences, FiniteSets, TLC

VARIABLES
    pc,          \* position of the running call
    exc,         \* exception that ended the call, "none" while there is none
    s,           \* encode / _split_whitespaces_or_nonwhitespaces: input text
    max_chars,   \* encode: width of the hard slices (TIKTOKEN_MAX_ENCODE_CHARS)
    max_run,     \* _split_whitespaces_or_nonwhitespaces: max_consecutive_slice_len
    substrs,     \* the slices produced, in order
    dialog,      \* encode_dialog: its argument
    bos,         \* encode_dialog: flag
    eos,         \* encode_dialog: flag
    mi,          \* encode_dialog: number of messages encoded so far
    msg_tokens,  \* encode_dialog: what the last encode_message call returned
    m,           \* round trip: the message handed to encode_message
    message,     \* decode_header / decode_message: the message being built
    stream,      \* the caller's token stream handed to the decoder / scanner
    tokens,      \* local `tokens` of the running method
    tokens_role, \* decode_header: tokens_role
    expected_strs, \* _take_until: the candidates
    ci,          \* _take_until: number of candidates already tried
    t,           \* _take_until: encoded form of the current candidate
    offset,      \* _take_until: offset
    best,        \* _take_until: best, <<>> for None, else <<offset, t>>
    ret,         \* _take_until: where its caller continues
    result       \* value the last finished call returned, <<>> if it raised

vars == <<pc, exc, s, max_chars, max_run, substrs, dialog, bos, eos, mi,
          msg_tokens, m, message, stream, tokens, tokens_role, expected_strs,
          ci, t, offset, best, ret, result>>

-----------------------------------------------------------------------------
(* Bounds of the model *)

MaxStrLen == 5
MaxM1 == 3
MaxM2 == 3
MaxDialogLen == 2
MaxContentParts == 2
MaxStreamLen == 4
MaxScanLen == 4
MaxCands == 2

-----------------------------------------------------------------------------
(* Python helpers *)

Min(a, b) == IF a < b THEN a ELSE b

\* s[a:b] for 0 <= a, 0 <= b
Slice(q, a, b) == SubSeq(q, a + 1, Min(b, Len(q)))

\* str.isspace() on one character
isspace(c) == c \in {" ", "\n"}

RECURSIVE Concat(_)
Concat(qs) == IF qs = <<>> THEN <<>> ELSE Head(qs) \o Concat(Tail(qs))

\* all sequences over S of length 0..n
SeqsUpTo(S, n) == UNION {[1..k -> S] : k \in 0..n}

-----------------------------------------------------------------------------
(* Tokenizer._split_whitespaces_or_nonwhitespaces, lines 169-193 *)

\* TLC evaluates the argument of an operator again at every use, and the
\* argument of a function once; the loops are written as recursive functions
\* of the loop variables.
Text == Seq(STRING)

\* mutant: the overflow test of line 189 is off by one
_split_late(q, max_consecutive_slice_len) ==
    LET loop[r \in Text, i \in Nat, current_slice_len \in Nat,
             current_slice_is_space \in BOOLEAN, slice_start \in Nat] ==
            IF i >= Len(r)
            THEN << Slice(r, slice_start, Len(r)) >>
            ELSE IF current_slice_is_space # isspace(r[i + 1])
                 THEN loop[r, i + 1, 1, isspace(r[i + 1]), slice_start]
                 ELSE IF current_slice_len + 1 > max_consecutive_slice_len + 1
                      THEN << Slice(r, slice_start, i) >>
                           \o loop[r, i + 1, 1, current_slice_is_space, i]
                      ELSE loop[r, i + 1, current_slice_len + 1,
                                current_slice_is_space, slice_start]
    IN  loop[q, 0, 0, IF Len(q) > 0 THEN isspace(q[1]) ELSE FALSE, 0]

\* loop[r, i, ...]: the slices yielded from index i of the for loop on, with
\* the loop variables as they are before that iteration
_split_whitespaces_or_nonwhitespaces(q, max_consecutive_slice_len) ==
    LET loop[r \in Text, i \in Nat, current_slice_len \in Nat,
             current_slice_is_space \in BOOLEAN, slice_start \in Nat] ==
            IF i >= Len(r)
            THEN << Slice(r, slice_start, Len(r)) >>
            ELSE IF current_slice_is_space # isspace(r[i + 1])
                 THEN loop[r, i + 1, 1, isspace(r[i + 1]), slice_start]
                 ELSE IF current_slice_len + 1 > max_consecutive_slice_len
                      THEN << Slice(r, slice_start, i) >>
                           \o loop[r, i + 1, 1, current_slice_is_space, i]
                      ELSE loop[r, i + 1, current_slice_len + 1,
                                current_slice_is_space, slice_start]
    IN  loop[q, 0, 0, IF Len(q) > 0 THEN isspace(q[1]) ELSE FALSE, 0]

-----------------------------------------------------------------------------
(* Tokenizer.encode, lines 134-140: the generator `substrs` *)

\* mutant: the hard slicing drops the character at each slice boundary
encode_substrs_drop(q, m1, m2) ==
    LET hard[r \in Text, i \in Nat] ==
            IF i >= Len(r)
            THEN <<>>
            ELSE _split_whitespaces_or_nonwhitespaces(Slice(r, i, i + m1), m2)
                 \o hard[r, i + m1 + 1]
    IN  hard[q, 0]

\* mutant: the hard slicing visits offset 0 even for the empty string
encode_substrs_once(q, m1, m2) ==
    LET hard[r \in Text, i \in Nat] ==
            IF i >= Len(r) /\ i > 0
            THEN <<>>
            ELSE _split_whitespaces_or_nonwhitespaces(Slice(r, i, i + m1), m2)
                 \o hard[r, i + m1]
    IN  hard[q, 0]

\* for i in range(0, len(s), m1): for substr in split(s[i : i + m1], m2)
encode_substrs(q, m1, m2) ==
    LET hard[r \in Text, i \in Nat] ==
            IF i >= Len(r)
            THEN <<>>
            ELSE _split_whitespaces_or_nonwhitespaces(Slice(r, i, i + m1), m2)
                 \o hard[r, i + m1]
    IN  hard[q, 0]

-----------------------------------------------------------------------------
(* Tokenizer.__init__, lines 34-88: vocabulary and special tokens *)

num_reserved_special_tokens == 256

TIKTOKEN_MAX_ENCODE_CHARS == 400000

MAX_NO_WHITESPACES_CHARS == 25000

\* The vocabulary file read by load_tiktoken_bpe: a small stand-in, token id =
\* position - 1.  Single characters first, then merged pieces.
mergeable_ranks ==
    << <<"<">>, <<"|">>, <<">">>, <<"_">>, <<"b">>, <<"e">>, <<"g">>, <<"i">>,
       <<"n">>, <<"o">>, <<"f">>, <<"t">>, <<"x">>, <<"d">>, <<"s">>, <<"a">>,
       <<"r">>, <<"h">>, <<"y">>, <<"m">>, <<"u">>, <<" ">>, <<"\n">>, <<"l">>,
       <<"c">>, <<".">>,
       <<"\n", "\n">>, <<" ", " ">>, <<"s", "t">>, <<"u", "s", "e", "r">>,
       <<"s", "y", "s", "t", "e", "m">>,
       <<"a", "s", "s", "i", "s", "t", "a", "n", "t">> >>

num_base_tokens == Len(mergeable_ranks)

\* The explicit head of the list of lines 50-67; the generated names
\* <|reserved_special_token_5|> .. _250|> follow it and shift none of these.
special_names ==
    << "<|begin_of_text|>", "<|end_of_text|>",
       "<|reserved_special_token_0|>", "<|reserved_special_token_1|>",
       "<|reserved_special_token_2|>", "<|reserved_special_token_3|>",
       "<|start_header_id|>", "<|end_header_id|>",
       "<|reserved_special_token_4|>", "<|eot_id|>" >>

\* len(special_tokens) of line 68
num_special_tokens == Len(special_names) + (num_reserved_special_tokens - 5 - 5)

\* the assertion of line 68
vocab_aligned == (num_base_tokens + num_special_tokens) % 8 = 0

\* self.special_tokens[name], lines 69-71
special_tokens(name) ==
    num_base_tokens + (CHOOSE i \in 1..Len(special_names) : special_names[i] = name) - 1

bos_id == special_tokens("<|begin_of_text|>")

eos_id == special_tokens("<|end_of_text|>")

\* The special-token names the model's alphabet can spell, as text.
Spell(name) ==
    CASE name = "<|begin_of_text|>" ->
           <<"<","|","b","e","g","i","n","_","o","f","_","t","e","x","t","|",">">>
      [] name = "<|end_of_text|>" ->
           <<"<","|","e","n","d","_","o","f","_","t","e","x","t","|",">">>
      [] name = "<|start_header_id|>" ->
           <<"<","|","s","t","a","r","t","_","h","e","a","d","e","r","_","i","d","|",">">>
      [] name = "<|end_header_id|>" ->
           <<"<","|","e","n","d","_","h","e","a","d","e","r","_","i","d","|",">">>
      [] name = "<|eot_id|>" ->
           <<"<","|","e","o","t","_","i","d","|",">">>

SpelledNames ==
    {"<|begin_of_text|>", "<|end_of_text|>", "<|start_header_id|>",
     "<|end_header_id|>", "<|eot_id|>"}

-----------------------------------------------------------------------------
(* The subword encoder self.model (tiktoken.Encoding), lines 72-77: an      *)
(* external collaborator.  Ordinary text is cut greedily into the longest   *)
(* vocabulary pieces; with allowed_special = "all" a special-token name in  *)
(* the text becomes its id; disallowed_special = () never raises.           *)

IsPrefix(p, q) == Len(p) <= Len(q) /\ SubSeq(q, 1, Len(p)) = p

\* the longest vocabulary piece that starts r
LongestPiece(r) ==
    LET pieces == {i \in 1..Len(mergeable_ranks) : IsPrefix(mergeable_ranks[i], r)}
    IN  CHOOSE x \in pieces :
            \A y \in pieces : Len(mergeable_ranks[y]) <= Len(mergeable_ranks[x])

model_encode(q, allowed_all) ==
    LET enc[r \in Text] ==
            IF r = <<>>
            THEN <<>>
            ELSE LET specials == {n \in SpelledNames : allowed_all /\ IsPrefix(Spell(n), r)}
                 IN  IF specials # {}
                     THEN LET n == CHOOSE x \in specials : TRUE
                          IN  <<special_tokens(n)>>
                              \o enc[SubSeq(r, Len(Spell(n)) + 1, Len(r))]
                     ELSE LET i == LongestPiece(r)
                          IN  <<i - 1>>
                              \o enc[SubSeq(r, Len(mergeable_ranks[i]) + 1, Len(r))]
    IN  enc[q]

token_text(id) ==
    IF id < num_base_tokens
    THEN mergeable_ranks[id + 1]
    ELSE Spell(special_names[id - num_base_tokens + 1])

RECURSIVE model_decode(_)
model_decode(ts) ==
    IF ts = <<>> THEN <<>> ELSE token_text(Head(ts)) \o model_decode(Tail(ts))

-----------------------------------------------------------------------------
(* Tokenizer.encode, lines 93-154, and Tokenizer.decode, lines 156-167 *)

\* lines 141-149: every slice in qs is encoded, the results are concatenated
encode_each(qs, allowed_all) ==
    LET ext[rs \in Seq(Text)] ==
            IF rs = <<>>
            THEN <<>>
            ELSE model_encode(Head(rs), allowed_all) \o ext[Tail(rs)]
    IN  ext[qs]

\* allowed_all: allowed_special = "all"; otherwise the default, set()
encode(q, b, e, allowed_all) ==
    LET run[r \in Text] ==
            (IF b THEN <<bos_id>> ELSE <<>>)
            \o encode_each(encode_substrs(r, TIKTOKEN_MAX_ENCODE_CHARS,
                                          MAX_NO_WHITESPACES_CHARS), allowed_all)
            \o (IF e THEN <<eos_id>> ELSE <<>>)
    IN  run[q]

decode(ts) == model_decode(ts)

-----------------------------------------------------------------------------
(* MessageFormat, encoding: lines 204-217 *)

RECURSIVE lstrip(_)
lstrip(q) == IF q # <<>> /\ isspace(Head(q)) THEN lstrip(Tail(q)) ELSE q

RECURSIVE rstrip(_)
rstrip(q) ==
    IF q # <<>> /\ isspace(q[Len(q)]) THEN rstrip(SubSeq(q, 1, Len(q) - 1)) ELSE q

\* str.strip()
strip(q) == rstrip(lstrip(q))

\* message.get("content", "")
get_content(msg) == IF "content" \in DOMAIN msg THEN msg.content ELSE <<>>

encode_header(msg) ==
    <<special_tokens("<|start_header_id|>")>>
    \o encode(msg.role, FALSE, FALSE, FALSE)
    \o <<special_tokens("<|end_header_id|>")>>
    \o encode(<<"\n", "\n">>, FALSE, FALSE, FALSE)

\* mutant: the content is encoded without .strip()
encode_message_unstripped(msg) ==
    encode_header(msg)
    \o (IF get_content(msg) # <<>>
        THEN encode(msg.content, FALSE, FALSE, FALSE)
        ELSE <<>>)
    \o <<special_tokens("<|eot_id|>")>>

\* mutant: the content is encoded with allowed_special = "all"
encode_message_special(msg) ==
    encode_header(msg)
    \o (IF get_content(msg) # <<>>
        THEN encode(strip(msg.content), FALSE, FALSE, TRUE)
        ELSE <<>>)
    \o <<special_tokens("<|eot_id|>")>>

encode_message(msg) ==
    encode_header(msg)
    \o (IF get_content(msg) # <<>>
        THEN encode(strip(msg.content), FALSE, FALSE, FALSE)
        ELSE <<>>)
    \o <<special_tokens("<|eot_id|>")>>

-----------------------------------------------------------------------------
(* MessageFormat._take, lines 247-255 *)

Raised == [ok |-> FALSE, rest |-> <<>>, taken |-> <<>>]

\* mutant: the prefix comparison of line 252 is missing
RECURSIVE take_from_unchecked(_, _, _)
take_from_unchecked(ts, strs, k) ==
    IF k > Len(strs)
    THEN Raised
    ELSE LET tt == encode(strs[k], FALSE, FALSE, TRUE)
         IN  IF Len(ts) < Len(tt)
             THEN take_from_unchecked(ts, strs, k + 1)
             ELSE [ok |-> TRUE, rest |-> Slice(ts, Len(tt), Len(ts)),
                   taken |-> Slice(ts, 0, Len(tt))]

\* the for loop from the k-th candidate on; Raised stands for ParseError
RECURSIVE take_from(_, _, _)
take_from(ts, strs, k) ==
    IF k > Len(strs)
    THEN Raised
    ELSE LET tt == encode(strs[k], FALSE, FALSE, TRUE)
         IN  IF Len(ts) < Len(tt)
             THEN take_from(ts, strs, k + 1)
             ELSE IF Slice(ts, 0, Len(tt)) # tt
                  THEN take_from(ts, strs, k + 1)
                  ELSE [ok |-> TRUE, rest |-> Slice(ts, Len(tt), Len(ts)),
                        taken |-> Slice(ts, 0, Len(tt))]

_take(ts, strs) == take_from(ts, strs, 1)

\* list.index(x, start): the first position >= start holding x, -1 for ValueError
index(ts, x, start) ==
    IF \E j \in start..(Len(ts) - 1) : ts[j + 1] = x
    THEN CHOOSE j \in start..(Len(ts) - 1) :
             ts[j + 1] = x /\ \A k \in start..(j - 1) : ts[k + 1] # x
    ELSE -1

-----------------------------------------------------------------------------
(* Values of the variables a specification does not use *)

NoMessage == [none |-> TRUE]

ChunkIdle == s = <<>> /\ max_chars = 1 /\ max_run = 1 /\ substrs = <<>>

DialogIdle == dialog = <<>> /\ bos = FALSE /\ eos = FALSE /\ mi = 0 /\ msg_tokens = <<>>

DecodeIdle == m = NoMessage /\ message = NoMessage /\ tokens_role = <<>>

ScanIdle ==
    expected_strs = <<>> /\ ci = 0 /\ t = <<>> /\ offset = 0 /\ best = <<>> /\ ret = "none"

chunk_vars == <<s, max_chars, max_run, substrs>>

dialog_vars == <<dialog, bos, eos, mi, msg_tokens>>

decode_vars == <<m, message, tokens_role>>

scan_vars == <<expected_strs, ci, t, offset, best, ret>>

-----------------------------------------------------------------------------
(* The chunker, called on its own and inside encode *)

ChunkChars == {"a", " ", "\n"}

InitChunk ==
    /\ vocab_aligned
    /\ pc = "chunk_call" /\ exc = "none" /\ result = <<>>
    /\ s \in SeqsUpTo(ChunkChars, MaxStrLen)
    /\ max_chars \in 1..MaxM1
    /\ max_run \in 1..MaxM2
    /\ substrs = <<>>
    /\ stream = <<>> /\ tokens = <<>>
    /\ DialogIdle /\ DecodeIdle /\ ScanIdle

\* _split_whitespaces_or_nonwhitespaces(s, max_run), consumed to the end
SplitCall ==
    /\ pc = "chunk_call"
    /\ substrs' = _split_whitespaces_or_nonwhitespaces(s, max_run)
    /\ pc' = "split_done"
    /\ UNCHANGED <<exc, s, max_chars, max_run, stream, tokens, result,
                   dialog_vars, decode_vars, scan_vars>>

\* encode(s, bos=b, eos=e), lines 134-154, with the two limits as parameters
EncodeCall ==
    /\ pc = "chunk_call"
    /\ substrs' = encode_substrs(s, max_chars, max_run)
    /\ \E b, e \in BOOLEAN :
          /\ bos' = b
          /\ eos' = e
          /\ tokens' = (IF b THEN <<bos_id>> ELSE <<>>)
                       \o encode_each(substrs', FALSE)
                       \o (IF e THEN <<eos_id>> ELSE <<>>)
    /\ result' = tokens'
    /\ pc' = "encode_done"
    /\ UNCHANGED <<exc, s, max_chars, max_run, stream, dialog, mi, msg_tokens,
                   decode_vars, scan_vars>>

NextChunk == SplitCall \/ EncodeCall

ChunkSpec == InitChunk /\ [][NextChunk]_vars

-----------------------------------------------------------------------------
(* MessageFormat.encode_dialog, lines 219-232 *)

Roles ==
    { <<"s", "y", "s", "t", "e", "m">>, <<"u", "s", "e", "r">>,
      <<"a", "s", "s", "i", "s", "t", "a", "n", "t">> }

assistant == <<"a", "s", "s", "i", "s", "t", "a", "n", "t">>

DialogContents == { <<>>, <<"a">>, <<" ", "a">>, <<" ">>, Spell("<|eot_id|>") }

DialogMessages == [role : Roles] \cup [role : Roles, content : DialogContents]

InitDialog ==
    /\ vocab_aligned
    /\ pc = "ed_call" /\ exc = "none" /\ result = <<>>
    /\ dialog \in SeqsUpTo(DialogMessages, MaxDialogLen)
    /\ bos \in BOOLEAN
    /\ eos \in BOOLEAN
    /\ mi = 0 /\ msg_tokens = <<>>
    /\ stream = <<>> /\ tokens = <<>>
    /\ ChunkIdle /\ DecodeIdle /\ ScanIdle

\* lines 220-222
EdBegin ==
    /\ pc = "ed_call"
    /\ tokens' = IF bos THEN <<special_tokens("<|begin_of_text|>")>> ELSE <<>>
    /\ pc' = "ed_loop"
    /\ UNCHANGED <<exc, stream, result, dialog_vars, chunk_vars, decode_vars, scan_vars>>

\* one iteration of the loop of lines 223-224
EdMessage ==
    /\ pc = "ed_loop"
    /\ mi < Len(dialog)
    /\ msg_tokens' = encode_message(dialog[mi + 1])
    /\ tokens' = tokens \o msg_tokens'
    /\ mi' = mi + 1
    /\ UNCHANGED <<pc, exc, stream, result, dialog, bos, eos, chunk_vars,
                   decode_vars, scan_vars>>

\* mutant: the <|eot_id|> is removed only when the last turn has content
EdEndContentOnly ==
    /\ pc = "ed_loop"
    /\ mi = Len(dialog)
    /\ IF eos
       THEN /\ tokens' = Append(tokens, special_tokens("<|end_of_text|>"))
            /\ result' = tokens'
            /\ pc' = "ed_done"
            /\ exc' = exc
       ELSE IF dialog = <<>>
            THEN /\ exc' = "IndexError"
                 /\ pc' = "raised"
                 /\ UNCHANGED <<tokens, result>>
            ELSE /\ tokens' = IF dialog[Len(dialog)].role = assistant
                                 /\ get_content(dialog[Len(dialog)]) # <<>>
                              THEN SubSeq(tokens, 1, Len(tokens) - 1)
                              ELSE tokens
                 /\ result' = tokens'
                 /\ pc' = "ed_done"
                 /\ exc' = exc
    /\ UNCHANGED <<stream, dialog_vars, chunk_vars, decode_vars, scan_vars>>

\* lines 226-232; dialog[-1] of an empty dialog raises IndexError
EdEnd ==
    /\ pc = "ed_loop"
    /\ mi = Len(dialog)
    /\ IF eos
       THEN /\ tokens' = Append(tokens, special_tokens("<|end_of_text|>"))
            /\ result' = tokens'
            /\ pc' = "ed_done"
            /\ exc' = exc
       ELSE IF dialog = <<>>
            THEN /\ exc' = "IndexError"
                 /\ pc' = "raised"
                 /\ UNCHANGED <<tokens, result>>
            ELSE /\ tokens' = IF dialog[Len(dialog)].role = assistant
                              THEN SubSeq(tokens, 1, Len(tokens) - 1)
                              ELSE tokens
                 /\ result' = tokens'
                 /\ pc' = "ed_done"
                 /\ exc' = exc
    /\ UNCHANGED <<stream, dialog_vars, chunk_vars, decode_vars, scan_vars>>

NextDialog == EdBegin \/ EdMessage \/ EdEnd

DialogSpec == InitDialog /\ [][NextDialog]_vars

-----------------------------------------------------------------------------
(* MessageFormat._take_until, lines 257-280, one action per loop step *)

\* entering _take_until(ts, *strs); its caller continues at r
CallTakeUntil(ts, strs, r) ==
    /\ tokens' = ts
    /\ expected_strs' = strs
    /\ ci' = 0
    /\ t' = <<>>
    /\ offset' = 0
    /\ best' = <<>>
    /\ ret' = r
    /\ pc' = "tu_for"

\* lines 259-264: the next candidate is encoded and measured
TuFor ==
    /\ pc = "tu_for"
    /\ ci < Len(expected_strs)
    /\ LET tt == encode(expected_strs[ci + 1], FALSE, FALSE, TRUE)
       IN  /\ t' = tt
           /\ IF Len(tokens) < Len(tt)
              THEN ci' = ci + 1 /\ pc' = pc /\ offset' = offset
              ELSE ci' = ci /\ pc' = "tu_while" /\ offset' = 0
    /\ UNCHANGED <<exc, stream, tokens, expected_strs, best, ret, result,
                   chunk_vars, dialog_vars, decode_vars>>

\* lines 266-273: the loop test and one pass through the loop body
TuWhile ==
    /\ pc = "tu_while"
    /\ IF ~(offset < Len(tokens))
       THEN \* the while loop ends without a break
            /\ ci' = ci + 1 /\ pc' = "tu_for"
            /\ UNCHANGED <<offset, best, exc, result>>
       ELSE IF t = <<>>
       THEN \* t[0] of an empty list
            /\ exc' = "IndexError" /\ pc' = "raised" /\ result' = <<>>
            /\ UNCHANGED <<ci, offset, best>>
       ELSE IF index(tokens, t[1], offset) = -1
       THEN \* ValueError: continue with the next candidate
            /\ ci' = ci + 1 /\ pc' = "tu_for"
            /\ UNCHANGED <<offset, best, exc, result>>
       ELSE /\ offset' = index(tokens, t[1], offset)
            /\ IF Slice(tokens, offset', offset' + Len(t)) = t
               THEN /\ best' = IF best = <<>> \/ offset' < best[1]
                               THEN <<offset', t>>
                               ELSE best
                    /\ ci' = ci + 1 /\ pc' = "tu_for"
               ELSE \* no break: back to the loop test, offset as index left it
                    /\ UNCHANGED <<best, ci, pc>>
            /\ UNCHANGED <<exc, result>>
    /\ UNCHANGED <<stream, tokens, expected_strs, t, ret,
                   chunk_vars, dialog_vars, decode_vars>>

\* lines 274-280
TuFinish ==
    /\ pc = "tu_for"
    /\ ci = Len(expected_strs)
    /\ IF best # <<>>
       THEN /\ result' = [next  |-> Slice(tokens, best[1] + Len(best[2]), Len(tokens)),
                          upto  |-> Slice(tokens, 0, best[1]),
                          found |-> Slice(tokens, best[1], best[1] + Len(best[2]))]
            /\ pc' = ret
            /\ exc' = exc
       ELSE /\ exc' = "ParseError"
            /\ pc' = "raised"
            /\ result' = <<>>
    /\ UNCHANGED <<stream, tokens, expected_strs, ci, t, offset, best, ret,
                   chunk_vars, dialog_vars, decode_vars>>

Tok(c) == encode(<<c>>, FALSE, FALSE, FALSE)[1]

ScanTokens == {Tok("a"), Tok("b")}

CandStrs == { <<>>, <<"a">>, <<"b">>, <<"a", "b">>, <<"b", "a">> }

InitScan ==
    /\ vocab_aligned
    /\ pc = "idle" /\ exc = "none" /\ result = <<>>
    /\ stream = <<>> /\ tokens = <<>>
    /\ ChunkIdle /\ DialogIdle /\ DecodeIdle /\ ScanIdle

\* a caller hands a stream and one or more candidates to _take_until
TuCall ==
    /\ pc = "idle"
    /\ \E ts \in SeqsUpTo(ScanTokens, MaxScanLen) :
       \E strs \in SeqsUpTo(CandStrs, MaxCands) \ {<<>>} :
          /\ stream' = ts
          /\ CallTakeUntil(ts, strs, "tu_done")
    /\ UNCHANGED <<exc, result, chunk_vars, dialog_vars, decode_vars>>

\* the steps of a running call
RunScan == TuFor \/ TuWhile \/ TuFinish

NextScan == TuCall \/ RunScan

\* the interpreter always takes the next step of a running call
ScanSpec == InitScan /\ [][NextScan]_vars /\ WF_vars(RunScan)

-----------------------------------------------------------------------------
(* MessageFormat.decode_message and decode_header, lines 234-245 *)

NN == <<"\n", "\n">>

ContentParts == { <<"a">>, <<" ">>, <<"\n">>, Spell("<|eot_id|>") }

Contents == {Concat(ps) : ps \in SeqsUpTo(ContentParts, MaxContentParts)}

Messages == [role : Roles] \cup [role : Roles, content : Contents]

StreamTokens ==
    { special_tokens("<|start_header_id|>"), special_tokens("<|end_header_id|>"),
      special_tokens("<|eot_id|>"), encode(NN, FALSE, FALSE, FALSE)[1], Tok("a") }

\* encode_message(msg) of some message; its stream goes to decode_message
EmCall ==
    /\ pc = "idle"
    /\ \E msg \in Messages :
          /\ m' = msg
          /\ stream' = encode_message(msg)
    /\ pc' = "dm_call"
    /\ UNCHANGED <<exc, tokens, result, message, tokens_role,
                   chunk_vars, dialog_vars, scan_vars>>

\* a caller hands some token stream to decode_message
DmInput ==
    /\ pc = "idle"
    /\ \E ts \in SeqsUpTo(StreamTokens, MaxStreamLen) : stream' = ts
    /\ pc' = "dm_call"
    /\ UNCHANGED <<exc, tokens, result, decode_vars, chunk_vars, dialog_vars, scan_vars>>

\* decode_message -> decode_header: line 235 and the call of line 236
DmCall ==
    /\ pc = "dm_call"
    /\ LET r == _take(stream, << Spell("<|start_header_id|>") >>)
       IN  IF r.ok
           THEN /\ CallTakeUntil(r.rest, << Spell("<|end_header_id|>") >>, "dh_sep")
                /\ exc' = exc
           ELSE /\ exc' = "ParseError"
                /\ pc' = "raised"
                /\ UNCHANGED <<tokens, scan_vars>>
    /\ UNCHANGED <<stream, result, decode_vars, chunk_vars, dialog_vars>>

\* the rest of decode_header, lines 236-239, and the call of line 243
DhSep ==
    /\ pc = "dh_sep"
    /\ tokens_role' = result.upto
    /\ LET r == _take(result.next, << NN >>)
       IN  IF r.ok
           THEN /\ message' = [role |-> decode(tokens_role')]
                /\ CallTakeUntil(r.rest, << Spell("<|eot_id|>") >>, "dm_content")
                /\ UNCHANGED <<exc, result>>
           ELSE /\ exc' = "ParseError"
                /\ pc' = "raised"
                /\ result' = <<>>
                /\ tokens' = result.next
                /\ UNCHANGED <<message, scan_vars>>
    /\ UNCHANGED <<stream, m, chunk_vars, dialog_vars>>

\* the rest of decode_message, lines 243-245
DmContent ==
    /\ pc = "dm_content"
    /\ tokens' = result.next
    /\ message' = [role |-> message.role, content |-> decode(result.upto)]
    /\ result' = <<tokens', message'>>
    /\ pc' = "dm_done"
    /\ UNCHANGED <<exc, stream, m, tokens_role, chunk_vars, dialog_vars, scan_vars>>

InitDecode ==
    /\ vocab_aligned
    /\ pc = "idle" /\ exc = "none" /\ result = <<>>
    /\ stream = <<>> /\ tokens = <<>>
    /\ ChunkIdle /\ DialogIdle /\ DecodeIdle /\ ScanIdle

\* the steps of a running call
RunDecode == DmCall \/ TuFor \/ TuWhile \/ TuFinish \/ DhSep \/ DmContent

NextDecode == EmCall \/ DmInput \/ RunDecode

\* the interpreter always takes the next step of a running call
DecodeSpec == InitDecode /\ [][NextDecode]_vars /\ WF_vars(RunDecode)

-----------------------------------------------------------------------------
(* Properties of the chunker *)

\* q has no n + 1 consecutive characters of one class
NoLongRun(q, n) ==
    \A a \in 1..(Len(q) - n) : \E b \in a..(a + n) : isspace(q[b]) # isspace(q[a])

\* number of hard slices of a text of length n cut every w characters
HardSlices(n, w) == (n + w - 1) \div w

\* C5: concatenating, in order, the slices encode hands to the subword
\* encoder gives back the input text, whatever the two limits are.
C5_ChunkReconstruction == pc = "encode_done" => Concat(substrs) = s

\* a text cut by the hard slicing and again by the run splitting
C5_Witness ==
    /\ pc = "encode_done"
    /\ Len(s) > max_chars
    /\ Len(substrs) > HardSlices(Len(s), max_chars)

\* C6: every slice encode hands to the subword encoder is at most max_chars
\* long and has no run of whitespace, or of non-whitespace, longer than
\* max_run.
C6_ChunkBounds ==
    pc = "encode_done" =>
        \A k \in 1..Len(substrs) :
            Len(substrs[k]) <= max_chars /\ NoLongRun(substrs[k], max_run)

\* the text has a run over the limit, and a slice with a class change is kept
\* whole although it is longer than the run limit
C6_Witness ==
    /\ pc = "encode_done"
    /\ ~NoLongRun(s, max_run)
    /\ \E k \in 1..Len(substrs) : Len(substrs[k]) > max_run

\* C10 as stated: for the empty string, encode's chunking yields exactly one
\* slice, the empty string.
C10_EmptyInputOneSlice == (pc = "encode_done" /\ s = <<>>) => substrs = << <<>> >>

\* C10 as amended: _split_whitespaces_or_nonwhitespaces alone yields exactly
\* one empty slice for the empty string; encode's chunking yields no slice at
\* all for the empty string, and at least one slice for any other text.
C10_EmptyInputNoSlice ==
    /\ (pc = "split_done" /\ s = <<>>) => substrs = << <<>> >>
    /\ pc = "encode_done" => (substrs = <<>> <=> s = <<>>)

C10_Witness == pc = "encode_done" /\ s = <<>> /\ tokens = <<>>

-----------------------------------------------------------------------------
(* Properties of encode_message and encode_dialog *)

IsMessage(x) == "role" \in DOMAIN x

\* C7: a message whose content is absent, empty or all whitespace encodes to
\* start-of-header, the role, end-of-header, "\n\n" and end-of-turn, nothing
\* else; and every encoded message ends with end-of-turn.
C7_EmptyContentOmitted ==
    IsMessage(m) =>
        /\ stream[Len(stream)] = special_tokens("<|eot_id|>")
        /\ strip(get_content(m)) = <<>> =>
              stream = <<special_tokens("<|start_header_id|>")>>
                       \o encode(m.role, FALSE, FALSE, FALSE)
                       \o <<special_tokens("<|end_header_id|>")>>
                       \o encode(NN, FALSE, FALSE, FALSE)
                       \o <<special_tokens("<|eot_id|>")>>

\* a message with whitespace-only content has been encoded
C7_Witness ==
    /\ IsMessage(m) /\ pc = "dm_call"
    /\ get_content(m) # <<>>
    /\ strip(get_content(m)) = <<>>

LastRoleIsAssistant == dialog # <<>> /\ dialog[Len(dialog)].role = assistant

\* C2: for a dialog ending in an assistant turn, encode_dialog with eos=False
\* returns a stream that does not end with end-of-turn, and with eos=True a
\* stream that ends with end-of-text.
C2_DialogTruncation ==
    (pc = "ed_done" /\ LastRoleIsAssistant) =>
        /\ result # <<>>
        /\ IF eos
           THEN result[Len(result)] = special_tokens("<|end_of_text|>")
           ELSE result[Len(result)] # special_tokens("<|eot_id|>")

\* a two-turn dialog whose assistant turn has no content, encoded with eos=False
C2_Witness ==
    /\ pc = "ed_done" /\ LastRoleIsAssistant /\ ~eos
    /\ Len(dialog) > 1
    /\ get_content(dialog[Len(dialog)]) = <<>>

\* C8: encode_dialog of an empty dialog raises, whatever bos and eos are; it
\* never returns a stream.
C8_EmptyDialogRejected == dialog = <<>> => pc # "ed_done"

-----------------------------------------------------------------------------
(* Properties of _take_until *)

\* the encoded form of the i-th candidate
Enc(i) == encode(expected_strs[i], FALSE, FALSE, TRUE)

\* tt occurs contiguously in ts at 0-based offset k
OccursAt(tt, ts, k) ==
    Len(tt) >= 1 /\ k + Len(tt) <= Len(ts) /\ SubSeq(ts, k + 1, k + Len(tt)) = tt

AllNonEmpty == \A i \in 1..Len(expected_strs) : Len(Enc(i)) >= 1

SomeOccurs ==
    \E i \in 1..Len(expected_strs) : \E k \in 0..Len(stream) : OccursAt(Enc(i), stream, k)

EarliestOffset ==
    CHOOSE k \in 0..Len(stream) :
        /\ \E i \in 1..Len(expected_strs) : OccursAt(Enc(i), stream, k)
        /\ \A j \in 0..(k - 1) : \A i \in 1..Len(expected_strs) : ~OccursAt(Enc(i), stream, j)

FirstDeclaredAt(k) ==
    CHOOSE i \in 1..Len(expected_strs) :
        /\ OccursAt(Enc(i), stream, k)
        /\ \A j \in 1..(i - 1) : ~OccursAt(Enc(j), stream, k)

EarliestMatch ==
    LET k == EarliestOffset
        n == Len(Enc(FirstDeclaredAt(k)))
    IN  [next  |-> SubSeq(stream, k + n + 1, Len(stream)),
         upto  |-> SubSeq(stream, 1, k),
         found |-> SubSeq(stream, k + 1, k + n)]

\* A pass through the while loop that finds t[0] at `offset` but not the whole
\* of t there leaves every local as it was (list.index returns `offset`
\* again), so the loop repeats that pass for ever: in the model the call stays
\* at "tu_while" with no further change of state.

\* C3: when some candidate occurs in the stream, _take_until returns the
\* occurrence with the smallest offset (the first declared candidate at equal
\* offsets), as the parts of the stream before, at and after it.
C3_EarliestMatch ==
    []((pc = "tu_for" /\ ci = 0 /\ AllNonEmpty /\ SomeOccurs) =>
          <>(pc = "tu_done" /\ result = EarliestMatch))

\* C4: when no candidate occurs in the stream, _take_until ends by raising
\* ParseError.
C4_NoMatchRaises ==
    []((pc = "tu_for" /\ ci = 0 /\ AllNonEmpty /\ ~SomeOccurs) =>
          <>(pc = "raised" /\ exc = "ParseError"))

-----------------------------------------------------------------------------
(* Properties of decode_message *)

\* ts is start-of-header, role tokens, end-of-header, "\n\n", body tokens,
\* end-of-turn, rest
WellFormed(ts) ==
    LET nn == encode(NN, FALSE, FALSE, FALSE)
    IN  /\ ts # <<>>
        /\ ts[1] = special_tokens("<|start_header_id|>")
        /\ \E i \in 2..Len(ts) :
              /\ ts[i] = special_tokens("<|end_header_id|>")
              /\ i + Len(nn) <= Len(ts)
              /\ SubSeq(ts, i + 1, i + Len(nn)) = nn
              /\ \E j \in (i + Len(nn) + 1)..Len(ts) : ts[j] = special_tokens("<|eot_id|>")

\* C1: decode_message(encode_message(m)) does not raise, and returns the role
\* of m, the content of m stripped, and an empty remaining stream.
C1_RoundTrip ==
    IsMessage(m) =>
        /\ pc # "raised"
        /\ pc = "dm_done" =>
              /\ result[1] = <<>>
              /\ result[2] = [role |-> m.role, content |-> strip(get_content(m))]

\* the round trip is done for a message whose content is trimmed on a side
\* and is not blank
C1_Witness ==
    /\ IsMessage(m) /\ pc = "dm_done"
    /\ strip(get_content(m)) # get_content(m)
    /\ strip(get_content(m)) # <<>>

\* C9: decode_message of a stream that is not well formed ends by raising
\* ParseError, returns nothing, and no step of the decoder changes the
\* caller's stream.
C9_MalformedRaises ==
    /\ [][pc # "idle" => stream' = stream]_vars
    /\ []((pc = "dm_call" /\ ~WellFormed(stream)) =>
              <>(pc = "raised" /\ exc = "ParseError" /\ result = <<>>))

\* a stream with a complete header and no end-of-turn has been rejected
C9_Witness ==
    /\ pc = "raised" /\ exc = "ParseError"
    /\ ~IsMessage(m)
    /\ ret = "dm_content"
    /\ stream # tokens

====
